---- MODULE Spec2Model ----
(***************************************************************************)
(* The ETB Datalog engine (src/etb/datalog) as a state machine.            *)
(*                                                                         *)
(* A literal is a sequence of integers <<pred, arg, ...>>: a positive      *)
(* integer is a predicate or constant symbol, a negative one a variable.   *)
(* A clause is a sequence of literals, head first.  A goal node of the     *)
(* dependency graph is keyed by its literal; a pending rule is a node of   *)
(* its own, keyed by its frozen clause (graph.py, add_pending_rule): the   *)
(* handle that inference.py calls a PendingRule is that clause, and        *)
(* prule.clause is the clause itself.  The lists of explanations that run  *)
(* parallel to the claim lists carry no control flow and are left out.     *)
(*                                                                         *)
(* The inference engine is recursive (add_goal -> resolve_goal ->          *)
(* add_pending_rule -> add_claim -> resolve_claim -> propagate_claims ->   *)
(* add_pending_rule ...).  The recursion is kept as an explicit call       *)
(* stack of frames, one step of the machine per loop iteration or call,    *)
(* so that the states in the middle of an entry point are states of the    *)
(* model.  An entry point of the Engine facade holds the inference lock    *)
(* from its first step to the step that empties the stack.                 *)
(***************************************************************************)
EXTENDS Integers, Sequences, FiniteSets, TLC

\* ------------------------------------------------------------------------
\* Bounds of the model
\* ------------------------------------------------------------------------
\* Calls of the clients to add_goal, add_rule, add_claim, add_pending_rule.
MaxCalls == 4

\* The depth of the call stack at which the interpreter gives up the
\* recursion of add_goal, resolve_goal and add_pending_rule with a
\* RuntimeError (sys.getrecursionlimit() frames in the program).
RecursionLimit == 16

\* Rounds of close(); complete() that a client waiting for a goal makes.
MaxRounds == 3

\* ------------------------------------------------------------------------
\* Symbols (the integers the term factory hands out)
\* ------------------------------------------------------------------------
sym == [c1 |-> 1, c2 |-> 2, p |-> 3, t |-> 4, gt |-> 5, e |-> 6, error |-> 7,
        lt |-> 8, q |-> 9, path |-> 10, edge |-> 11, a |-> 12, b |-> 13, c |-> 14]

\* Annotation.kind and Annotation.status
GOAL == 0
PENDING_CLAUSE == 1
OPEN == 0
CLOSED == 1
RESOLVED == 2
COMPLETED == 3

\* Python's None: in a field that holds a literal (Annotation.goal), and in
\* a field that holds a number (gD[h], gUnclosed, tau).
None == << >>
NoneInt == -1

\* ------------------------------------------------------------------------
\* model.py: pure functions on literals and clauses
\* ------------------------------------------------------------------------
is_fact(clause) == Len(clause) = 1

is_ground(literal) == \A i \in 1..Len(literal) : literal[i] >= 0

ClauseTerms(clause) ==
    UNION {{clause[i][j] : j \in 1..Len(clause[i])} : i \in 1..Len(clause)}

offset(clause) ==
    LET minimum == CHOOSE m \in ClauseTerms(clause) :
                       \A x \in ClauseTerms(clause) : m <= x
    IN  IF minimum < 0 THEN minimum ELSE 0

shift_literal(literal, off) ==
    [i \in 1..Len(literal) |->
        IF literal[i] < 0 THEN literal[i] + off ELSE literal[i]]

RECURSIVE find_first_variable_difference(_, _)
find_first_variable_difference(l1, l2) ==
    IF Len(l1) = 0 THEN 0
    ELSE IF Head(l1) > 0 THEN find_first_variable_difference(Tail(l1), Tail(l2))
    ELSE IF Head(l2) > 0 THEN find_first_variable_difference(Tail(l1), Tail(l2))
    ELSE IF Head(l1) = Head(l2)
         THEN find_first_variable_difference(Tail(l1), Tail(l2))
    ELSE IF Head(l1) > Head(l2) THEN Head(l1) - Head(l2)
    ELSE Head(l2) - Head(l1)

replace_first_by_second(tuples, first, second) ==
    [i \in 1..Len(tuples) |->
        IF tuples[i][1] = first THEN <<second, tuples[i][2]>>
        ELSE IF tuples[i][2] = first THEN <<tuples[i][1], second>>
        ELSE tuples[i]]

\* The result of a unification: ok = FALSE is Python's None; otherwise s is
\* the list of pairs from which the code builds its dict (a later pair for
\* the same key overrides an earlier one).
NoSubst == [ok |-> FALSE, s |-> << >>]

RECURSIVE unify_loop(_, _)
unify_loop(equality_statements, substitution) ==
    IF Len(equality_statements) = 0 THEN [ok |-> TRUE, s |-> substitution]
    ELSE
      LET n == Len(equality_statements)
          first == equality_statements[n][1]
          second == equality_statements[n][2]
          rest == SubSeq(equality_statements, 1, n - 1)
      IN  IF first = second THEN unify_loop(rest, substitution)
          ELSE IF first >= 0 /\ second >= 0 THEN NoSubst
          ELSE IF first < 0
               THEN unify_loop(replace_first_by_second(rest, first, second),
                               Append(replace_first_by_second(substitution, first, second),
                                      <<first, second>>))
          ELSE unify_loop(replace_first_by_second(rest, second, first),
                          Append(replace_first_by_second(substitution, second, first),
                                 <<second, first>>))

get_unification_l(l1, l2) ==
    IF l1[1] # l2[1] \/ Len(l1) # Len(l2) THEN NoSubst
    ELSE unify_loop([i \in 1..(Len(l1) - 1) |-> <<l1[i + 1], l2[i + 1]>>], << >>)

is_substitution(subst) == subst.ok

substitute(subst, i) ==
    LET hits == {k \in 1..Len(subst.s) : subst.s[k][1] = i}
    IN  IF i < 0 /\ hits # {}
        THEN subst.s[CHOOSE k \in hits : \A k2 \in hits : k2 <= k][2]
        ELSE i

apply_substitution_l(subst, literal) ==
    [i \in 1..Len(literal) |-> substitute(subst, literal[i])]

\* A resolution step that forgets to apply the unifier.
clause_as_it_is(subst, clause) == clause

apply_substitution_c(subst, clause) ==
    [i \in 1..Len(clause) |-> apply_substitution_l(subst, clause[i])]

remove_first_body_literal(clause, subst) ==
    apply_substitution_c(subst, <<clause[1]>> \o SubSeq(clause, 3, Len(clause)))

is_renaming(literal1, literal2) ==
    IF Len(literal1) # Len(literal2) THEN FALSE
    ELSE LET off == find_first_variable_difference(literal1, literal2)
         IN  \/ shift_literal(literal1, off) = literal2
             \/ literal1 = shift_literal(literal2, off)

\* ------------------------------------------------------------------------
\* index.py: the discrimination tree, kept as the list of its values in
\* insertion order; a retrieval selects the values whose normalised key the
\* tree walk reaches.
\* ------------------------------------------------------------------------
normalized_key(key) == [i \in 1..Len(key) |-> IF key[i] >= 0 THEN key[i] ELSE -1]

\* get_candidate_matchings: same predicate; where the key holds a variable
\* any branch is followed, where it holds a constant the branch of that
\* constant or of a variable.
matches_key(key, entry) ==
    LET k == normalized_key(key)
        d == normalized_key(entry)
    IN  /\ Len(k) = Len(d)
        /\ k[1] = d[1]
        /\ \A i \in 2..Len(k) : k[i] = -1 \/ d[i] = k[i] \/ d[i] = -1

\* get_candidate_renamings: the branch with the same normalised key.
renames_key(key, entry) == normalized_key(key) = normalized_key(entry)

\* ------------------------------------------------------------------------
\* State
\* ------------------------------------------------------------------------
VARIABLES
    db_all,          \* LogicalState.db_all: the clauses that have an explanation
    db_heads,        \* LogicalState.db_heads: the KB rules, by head
    db_claims,       \* LogicalState.db_claims: the claims, by literal
    db_goals,        \* LogicalState.db_goals: the goal index
    db_stuck_goals,  \* LogicalState.db_stuck_goals: the stuck-goal index
    global_time,     \* LogicalState.global_time
    nodes,           \* DependencyGraph.nodes_to_annotations, its keys in insertion order
    ann,             \* DependencyGraph.nodes_to_annotations, node -> Annotation
    graph,           \* DependencyGraph.graph, node -> list of children
    parents,         \* DependencyGraph.parents, node -> list of parents
    stack,           \* the call stack of the thread inside an entry point, top first
    jobs,            \* goals handed to the interpret state -> where their handler is
    calls,           \* entry-point calls made so far
    propagated,      \* history: the (pending rule, claim) pairs propagate_claim_to_pending_clause resolved
    program,         \* the goals, rules and claims the clients of this run draw from
    rlock,           \* DependencyGraph.rlock: how many times its owner holds it
    inferencing_clear \* DependencyGraph.inferencing_clear

vars == <<db_all, db_heads, db_claims, db_goals, db_stuck_goals, global_time,
          nodes, ann, graph, parents, stack, jobs, calls, propagated, program,
          rlock, inferencing_clear>>

\* The logical state as one value, so that the calls a handler makes compose.
Cur ==
    [db_all |-> db_all, db_heads |-> db_heads, db_claims |-> db_claims,
     db_goals |-> db_goals, db_stuck_goals |-> db_stuck_goals,
     global_time |-> global_time, nodes |-> nodes, ann |-> ann,
     graph |-> graph, parents |-> parents]

Becomes(L) ==
    /\ db_all' = L.db_all
    /\ db_heads' = L.db_heads
    /\ db_claims' = L.db_claims
    /\ db_goals' = L.db_goals
    /\ db_stuck_goals' = L.db_stuck_goals
    /\ global_time' = L.global_time
    /\ nodes' = L.nodes
    /\ ann' = L.ann
    /\ graph' = L.graph
    /\ parents' = L.parents

\* ------------------------------------------------------------------------
\* graph.py: nodes, annotations, edges
\* ------------------------------------------------------------------------
\* A node key: a frozen goal (a tuple of integers) or a frozen clause (a
\* tuple of tuples).  item is <<literal>> for a goal and the clause for a
\* pending rule; kind keeps the two apart as the two tuple shapes do.
GoalNode(goal) == [kind |-> GOAL, item |-> <<goal>>]
RuleNode(clause) == [kind |-> PENDING_CLAUSE, item |-> clause]

EmptyMap == [x \in {} |-> 0]

Annotation(kind, L) ==
    [kind |-> kind, index |-> L.global_time + 1, subgoalindex |-> 0,
     claims |-> << >>, status |-> OPEN, goal |-> None,
     gT |-> EmptyMap, gD |-> EmptyMap, gUnclosed |-> NoneInt]

node_is_present(L, node) == node \in DOMAIN L.ann

\* add_node, the new Annotation (which advances the global time) and its
\* entry in nodes_to_annotations.
NewNode(L, node) ==
    [L EXCEPT !.nodes = Append(@, node),
              !.ann = @ @@ (node :> Annotation(node.kind, L)),
              !.graph = @ @@ (node :> << >>),
              !.parents = @ @@ (node :> << >>),
              !.global_time = @ + 1]

graph_add_goal(L, goal) ==
    IF node_is_present(L, GoalNode(goal)) THEN L ELSE NewNode(L, GoalNode(goal))

graph_add_pending_rule(L, clause) ==
    IF node_is_present(L, RuleNode(clause)) THEN L ELSE NewNode(L, RuleNode(clause))

AddEdge(L, from, to) ==
    [L EXCEPT !.graph[from] = Append(@, to), !.parents[to] = Append(@, from)]

\* The two nodes without the edge between them.
add_goal_to_pending_rule_without_edge(L, goal, rule) ==
    graph_add_pending_rule(graph_add_goal(L, goal), rule)

add_goal_to_pending_rule(L, goal, rule) ==
    AddEdge(graph_add_pending_rule(graph_add_goal(L, goal), rule),
            GoalNode(goal), RuleNode(rule))

add_pending_rule_to_pending_rule(L, rule1, rule2) ==
    AddEdge(graph_add_pending_rule(graph_add_pending_rule(L, rule1), rule2),
            RuleNode(rule1), RuleNode(rule2))

add_pending_rule_to_goal(L, rule, goal) ==
    AddEdge(graph_add_pending_rule(graph_add_goal(L, goal), rule),
            RuleNode(rule), GoalNode(goal))

get_children(L, node) == IF node \in DOMAIN L.graph THEN L.graph[node] ELSE << >>

get_parents(L, node) == IF node \in DOMAIN L.parents THEN L.parents[node] ELSE << >>

InSeq(x, s) == \E i \in 1..Len(s) : s[i] = x

\* graph.add_claim: the annotation is created when the goal has none; the
\* claim is appended unless the list holds it.
graph_add_claim(L, goal, claim) ==
    LET L1 == graph_add_goal(L, goal)
        n == GoalNode(goal)
    IN  IF InSeq(claim, L1.ann[n].claims) THEN L1
        ELSE [L1 EXCEPT !.ann[n].claims = Append(@, claim)]

has_subgoal(L, node) ==
    \E i \in 1..Len(get_children(L, node)) : get_children(L, node)[i].kind = GOAL

\* ------------------------------------------------------------------------
\* model.py: LogicalState
\* ------------------------------------------------------------------------
db_mem(L, rule) == rule \in L.db_all

db_add_clause(L, prule) == [L EXCEPT !.db_all = @ \cup {prule}]

db_mem_claim(L, prule) == InSeq(prule, L.db_claims)

\* A db_add_claim without the in_index test.
db_add_claim_again(L, prule) == [L EXCEPT !.db_claims = Append(@, prule)]

db_add_claim(L, prule) ==
    IF InSeq(prule, L.db_claims) THEN L ELSE [L EXCEPT !.db_claims = Append(@, prule)]

db_add_goal(L, goal) ==
    graph_add_goal(IF InSeq(goal, L.db_goals) THEN L
                   ELSE [L EXCEPT !.db_goals = Append(@, goal)], goal)

db_add_stuck_goal(L, goal) ==
    IF InSeq(goal, L.db_stuck_goals) THEN L
    ELSE [L EXCEPT !.db_stuck_goals = Append(@, goal)]

db_remove_stuck_goal(L, goal) ==
    [L EXCEPT !.db_stuck_goals = SelectSeq(@, LAMBDA el : el # goal)]

\* A move that forgets to take the goal out of the stuck-goal index.
move_without_removing(L, goal) ==
    IF InSeq(goal, L.db_stuck_goals) THEN db_add_goal(L, goal) ELSE L

db_move_stuck_goal_to_goal(L, goal) ==
    IF InSeq(goal, L.db_stuck_goals)
    THEN db_add_goal(db_remove_stuck_goal(L, goal), goal)
    ELSE L

is_stuck_goal(L, goal) == InSeq(goal, L.db_stuck_goals)

is_goal(L, goal) == InSeq(goal, L.db_goals)

db_add_rule(L, clause) == [L EXCEPT !.db_heads = Append(@, clause)]

\* db_add_pending_rule: the index on the selected literal is written and
\* never read by the inference; the node is what matters.
db_add_pending_rule(L, clause) == graph_add_pending_rule(L, clause)

\* A db_add_claim_to_goal that leaves the claim list of the goal alone.
claim_kept_from_goal(L, goal, claim) == L

db_add_claim_to_goal(L, goal, claim) == graph_add_claim(L, goal, claim)

\* is_renaming_present_of_goal: the first renaming among the candidates of
\* the goal index, then of the stuck-goal index; None when there is none.
FirstRenaming(goal, candidates) ==
    LET hits == SelectSeq(candidates, LAMBDA c : is_renaming(goal, c))
    IN  IF Len(hits) > 0 THEN hits[1] ELSE None

is_renaming_present_of_goal(L, goal) ==
    LET candidate_renamings ==
            SelectSeq(L.db_goals, LAMBDA c : renames_key(goal, c))
        candidate_renamings_stuck ==
            SelectSeq(L.db_stuck_goals, LAMBDA c : renames_key(goal, c))
    IN  IF FirstRenaming(goal, candidate_renamings) # None
        THEN FirstRenaming(goal, candidate_renamings)
        ELSE FirstRenaming(goal, candidate_renamings_stuck)

get_candidate_matchings(idx, key) == SelectSeq(idx, LAMBDA el : matches_key(key, el))

get_candidate_matchings_heads(idx, key) ==
    SelectSeq(idx, LAMBDA clause : matches_key(key, clause[1]))

\* ------------------------------------------------------------------------
\* The interpret state: gt and lt are the interpreted predicates; a goal of
\* theirs is valid when its arguments meet the wrapper's mode, here all
\* ground.  The handler of gt runs on the pool; the handler of lt is marked
\* Tool.sync (_async = False) and runs in the thread that dispatches it.
\* ------------------------------------------------------------------------
is_interpreted(goal) == goal[1] \in {sym.gt, sym.lt}

handler_is_async(goal) == goal[1] # sym.lt

is_valid(goal) == is_ground(goal)

\* ------------------------------------------------------------------------
\* inference.py: helpers on annotations
\* ------------------------------------------------------------------------
set_status_goal(L, goal, status) ==
    IF GoalNode(goal) \in DOMAIN L.ann
    THEN [L EXCEPT !.ann[GoalNode(goal)].status = status]
    ELSE L

\* A set_goal_to_resolved that does not write the status.
status_left_as_it_is(L, goal) == L

set_goal_to_resolved(L, goal) == set_status_goal(L, goal, RESOLVED)

update_goal(L, pending_clause, goal) ==
    [L EXCEPT !.ann[RuleNode(pending_clause)].goal = goal]

updategT(L, subgoal, clause) ==
    IF RuleNode(clause) \notin DOMAIN L.ann THEN L
    ELSE LET goal == L.ann[RuleNode(clause)].goal
         IN  IF goal = None \/ GoalNode(goal) \notin DOMAIN L.ann THEN L
             ELSE LET gT == L.ann[GoalNode(goal)].gT
                      old == IF subgoal \in DOMAIN gT THEN gT[subgoal] ELSE << >>
                  IN  [L EXCEPT !.ann[GoalNode(goal)].gT =
                          (subgoal :> Append(old, clause)) @@ gT]

increase_subgoalindex(L, pending_rule) ==
    IF RuleNode(pending_rule) \in DOMAIN L.ann
    THEN [L EXCEPT !.ann[RuleNode(pending_rule)].subgoalindex = @ + 1]
    ELSE L

get_subgoal_index(L, prule) == L.ann[RuleNode(prule)].subgoalindex

\* move_stuck_goal_to_goal; its closing assert holds when the goal has an
\* annotation (MoveAsserts).
move_stuck_goal_to_goal(L, goal) ==
    set_goal_to_resolved(db_move_stuck_goal_to_goal(L, goal), goal)

MoveAsserts(L, goal) == GoalNode(goal) \in DOMAIN move_stuck_goal_to_goal(L, goal).ann

\* ------------------------------------------------------------------------
\* The call stack
\* ------------------------------------------------------------------------
\* A frame: the function that is running (op), its arguments, and for a
\* loop the list it walks, the position i in it and the limit n.
F0 ==
    [op |-> "none", goal |-> << >>, rule |-> << >>, from |-> << >>,
     cands |-> << >>, i |-> 0, n |-> 0, flag |-> FALSE]

AddGoalFrame(goal) == [F0 EXCEPT !.op = "add_goal", !.goal = goal]

AfterInterpretFrame(goal) == [F0 EXCEPT !.op = "after_interpret", !.goal = goal]

\* resolve_goal: the candidate rules are fetched once, before the loop.
\* flag: the caller is check_stuck_goals, which unsticks the goal afterwards.
ResolveGoalFrame(L, goal, move) ==
    [F0 EXCEPT !.op = "resolve_goal", !.goal = goal,
               !.cands = get_candidate_matchings_heads(L.db_heads, goal),
               !.i = 1, !.flag = move]

\* add_pending_rule(rule, explanation, parent_goal): a top-down explanation
\* names the goal (from = None), a bottom-up one the originating rule.
AddPendingRuleFrame(rule, goal, from) ==
    [F0 EXCEPT !.op = "add_pending_rule", !.rule = rule, !.goal = goal, !.from = from]

AddClaimFrame(prule) == [F0 EXCEPT !.op = "add_claim", !.rule = prule]

ResolveClaimFrame(goal) == [F0 EXCEPT !.op = "resolve_claim", !.goal = goal, !.i = 1]

\* propagate_claims: subgoal_index and max_subgoal_claims are read once,
\* before the loop; i counts from 0 as range() does.
PropagateClaimsFrame(L, subgoal, prule) ==
    [F0 EXCEPT !.op = "propagate_claims", !.goal = subgoal, !.rule = prule,
               !.i = get_subgoal_index(L, prule),
               !.n = IF GoalNode(subgoal) \in DOMAIN L.ann
                     THEN Len(L.ann[GoalNode(subgoal)].claims)
                     ELSE 0]

\* The rest of resolve_goal_with_rule once its add_pending_rule has returned
\* (flag: add_rule's second loop, which then unsticks the goal).
SetResolvedFrame(goal, move) ==
    [F0 EXCEPT !.op = "set_resolved", !.goal = goal, !.flag = move]

\* An exception has left the entry point with the inference lock held.
RaisedFrame == [F0 EXCEPT !.op = "raised"]

\* The last line of an entry point of the Engine: inference_state.unlock().
UnlockFrame == [F0 EXCEPT !.op = "unlock"]

\* The RuntimeError of a recursion deeper than the interpreter allows has
\* left the entry point: no handler catches it, the lock stays held.
RecursionErrorFrame == [RaisedFrame EXCEPT !.flag = TRUE]

\* InterpretState._interpret running a synchronous handler in this thread.
InterpretFrame(goal) == [F0 EXCEPT !.op = "interpret", !.goal = goal]

\* Inference.push_no_solutions(goal)
PushNoSolutionsFrame(goal) == [F0 EXCEPT !.op = "push_no_solutions", !.goal = goal]

\* Inference.add_errors(goal, errors)
AddErrorsFrame(goal, errors) ==
    [F0 EXCEPT !.op = "add_errors", !.goal = goal, !.cands = errors]

\* Inference.add_claims(claims): the loop over the batch.
AddClaimsFrame(claims) == [F0 EXCEPT !.op = "add_claims", !.cands = claims, !.i = 1]

Top == Head(stack)

\* The handler is at the end of _handle_output_new_api ("done") or of
\* _process_output: with the empty list ("processed"), or with the
\* dictionary made of a handler that raised or returned None ("failed").
JobDone(goal) == goal \in DOMAIN jobs /\ jobs[goal] \in {"done", "processed", "failed"}

Running(op) == Len(stack) > 0 /\ Top.op = op

\* ------------------------------------------------------------------------
\* inference.py: the steps of the recursion
\* ------------------------------------------------------------------------
\* add_goal up to its call of resolve_goal or of the interpret state.
StepAddGoal ==
    /\ Running("add_goal")
    /\ LET goal == Top.goal
           L1 == graph_add_goal(Cur, goal)
       IN  IF is_renaming_present_of_goal(Cur, goal) # None
           THEN /\ Becomes(Cur) /\ stack' = Tail(stack) /\ UNCHANGED jobs
           ELSE IF is_interpreted(goal) /\ ~is_valid(goal)
           THEN /\ Becomes(L1) /\ stack' = Tail(stack) /\ UNCHANGED jobs
           ELSE IF is_interpreted(goal)
           THEN /\ Becomes(db_add_stuck_goal(L1, goal))
                /\ jobs' = (goal :> "run") @@ jobs
                /\ stack' = (IF handler_is_async(goal) THEN << >>
                              ELSE <<InterpretFrame(goal)>>)
                                 \o <<AfterInterpretFrame(goal)>> \o Tail(stack)
           ELSE IF Len(stack) > RecursionLimit
           THEN /\ Becomes(L1) /\ stack' = <<RecursionErrorFrame>> /\ UNCHANGED jobs
           ELSE /\ Becomes(db_add_goal(L1, goal))
                /\ stack' = <<ResolveGoalFrame(L1, goal, FALSE)>> \o Tail(stack)
                /\ UNCHANGED jobs
    /\ UNCHANGED <<calls, propagated, program, rlock, inferencing_clear>>

\* A synchronous handler has returned and its output has been handled:
\* _interpret returns to interpret_goal_somewhere and to add_goal.
StepInterpret ==
    /\ Running("interpret")
    /\ JobDone(Top.goal)
    /\ stack' = Tail(stack)
    /\ Becomes(Cur)
    /\ UNCHANGED <<jobs, calls, propagated, program, rlock, inferencing_clear>>

\* add_goal after interpret_goal_somewhere has handed the goal over.
StepAfterInterpret ==
    /\ Running("after_interpret")
    /\ Becomes(IF is_stuck_goal(Cur, Top.goal) THEN Cur
               ELSE set_goal_to_resolved(Cur, Top.goal))
    /\ stack' = Tail(stack)
    /\ UNCHANGED <<jobs, calls, propagated, program, rlock, inferencing_clear>>

\* One iteration of resolve_goal's loop over the candidate rules, or its
\* end.  The debug line before the test reads subst.items(), so a candidate
\* that does not unify raises.
StepResolveGoal ==
    /\ Running("resolve_goal")
    /\ LET goal == Top.goal
           rest == Tail(stack)
       IN  IF Top.i > Len(Top.cands)
           THEN /\ Becomes(IF Top.flag
                           THEN move_stuck_goal_to_goal(set_goal_to_resolved(Cur, goal), goal)
                           ELSE set_goal_to_resolved(Cur, goal))
                /\ stack' = rest
           ELSE LET candidate == Top.cands[Top.i]
                    off == offset(candidate)
                    disjoint_goal == shift_literal(goal, off)
                    subst == get_unification_l(candidate[1], disjoint_goal)
                    pending_rule == apply_substitution_c(subst, candidate)
                IN  /\ Becomes(Cur)
                    /\ stack' = IF is_substitution(subst)
                                THEN <<AddPendingRuleFrame(pending_rule, goal, None),
                                       [Top EXCEPT !.i = @ + 1]>> \o rest
                                ELSE <<RaisedFrame>>
    /\ UNCHANGED <<jobs, calls, propagated, program, rlock, inferencing_clear>>

\* rule[0] in parent_goal_claim_literals: get_claims_matching_goal returns
\* the pair (claims, explanations), so the head is compared with the two
\* lists as wholes and never with a claim's literal.
SubsumedByClaim(L, rule, parent_goal) == FALSE

\* add_pending_rule up to its last call (add_claim, add_goal or
\* propagate_claims), which the frame becomes.
StepAddPendingRule ==
    /\ Running("add_pending_rule")
    /\ LET rule == Top.rule
           rest == Tail(stack)
           L1 == db_add_clause(db_add_pending_rule(Cur, rule), rule)
           present == IF is_fact(rule) THEN None
                      ELSE is_renaming_present_of_goal(L1, rule[2])
           new_subgoal == ~is_fact(rule) /\ present = None
           subgoal == IF is_fact(rule) THEN None
                      ELSE IF new_subgoal THEN rule[2] ELSE present
           L2 == IF Top.from = None
                 THEN update_goal(add_goal_to_pending_rule(L1, Top.goal, rule),
                                  rule, Top.goal)
                 ELSE LET La == add_pending_rule_to_pending_rule(L1, Top.from, rule)
                          Lb == update_goal(La, rule, La.ann[RuleNode(Top.from)].goal)
                      IN  IF is_fact(rule) THEN Lb ELSE updategT(Lb, subgoal, rule)
           L3 == updategT(add_pending_rule_to_goal(L2, rule, subgoal), subgoal, rule)
       IN  IF SubsumedByClaim(Cur, rule, Top.goal)
           THEN Becomes(Cur) /\ stack' = rest
           ELSE IF is_fact(rule)
           THEN Becomes(L2) /\ stack' = <<AddClaimFrame(rule)>> \o rest
           ELSE IF new_subgoal
           THEN Becomes(L3) /\ stack' = <<AddGoalFrame(subgoal)>> \o rest
           ELSE Becomes(L3) /\ stack' = <<PropagateClaimsFrame(L3, subgoal, rule)>> \o rest
    /\ UNCHANGED <<jobs, calls, propagated, program, rlock, inferencing_clear>>

\* add_claim and the head of resolve_claim: the claim joins the claim list
\* of the goal its annotation names; the frame becomes resolve_claim's loop.
StepAddClaim ==
    /\ Running("add_claim")
    /\ LET prule == Top.rule
           L1 == db_add_claim(db_add_clause(Cur, prule), prule)
           known == RuleNode(prule) \in DOMAIN L1.ann
           claim_goal == IF known THEN L1.ann[RuleNode(prule)].goal ELSE None
       IN  IF ~known
           THEN Becomes(L1) /\ stack' = Tail(stack)
           ELSE IF claim_goal = None
           THEN Becomes(L1) /\ stack' = <<RaisedFrame>>
           ELSE /\ Becomes(db_add_claim_to_goal(L1, claim_goal, prule))
                /\ stack' = <<ResolveClaimFrame(claim_goal)>> \o Tail(stack)
    /\ UNCHANGED <<jobs, calls, propagated, program, rlock, inferencing_clear>>

\* One iteration of resolve_claim's loop over the parents of the goal: the
\* list is the graph's own, so it is read anew at each iteration.
StepResolveClaim ==
    /\ Running("resolve_claim")
    /\ LET candidate_clauses == get_parents(Cur, GoalNode(Top.goal))
       IN  stack' = IF Top.i > Len(candidate_clauses)
                    THEN Tail(stack)
                    ELSE <<PropagateClaimsFrame(Cur, Top.goal,
                                                candidate_clauses[Top.i].item),
                           [Top EXCEPT !.i = @ + 1]>> \o Tail(stack)
    /\ Becomes(Cur)
    /\ UNCHANGED <<jobs, calls, propagated, program, rlock, inferencing_clear>>

\* One iteration of propagate_claims' loop: propagate_claim_to_pending_clause
\* for claim number i of the subgoal.
StepPropagateClaims ==
    /\ Running("propagate_claims")
    /\ IF Top.i >= Top.n
       THEN Becomes(Cur) /\ stack' = Tail(stack) /\ UNCHANGED propagated
       ELSE LET candidate == Top.rule
                claim == Cur.ann[GoalNode(Top.goal)].claims[Top.i + 1]
                subst == get_unification_l(claim[1], candidate[2])
                new_clause == remove_first_body_literal(candidate, subst)
                next == [Top EXCEPT !.i = @ + 1]
            IN  IF is_substitution(subst)
                THEN /\ Becomes(increase_subgoalindex(Cur, candidate))
                     /\ propagated' = Append(propagated, <<candidate, claim>>)
                     /\ stack' = <<AddPendingRuleFrame(new_clause, None, candidate), next>>
                                     \o Tail(stack)
                ELSE /\ Becomes(Cur)
                     /\ stack' = <<next>> \o Tail(stack)
                     /\ UNCHANGED propagated
    /\ UNCHANGED <<jobs, calls, program, rlock, inferencing_clear>>

\* resolve_goal_with_rule(goal, rule) as far as its add_pending_rule: the
\* frames it leaves on the stack.  The goal is set to resolved once
\* add_pending_rule has returned, whether or not the head unified; move is
\* add_rule's second loop, which unsticks the goal when the head unified.
ResolveGoalWithRuleFrames(goal, rule, move) ==
    LET off == offset(rule)
        disjoint_candidate == shift_literal(goal, off)
        subst == get_unification_l(disjoint_candidate, rule[1])
        new_clause == apply_substitution_c(subst, rule)
    IN  IF is_substitution(subst)
        THEN <<AddPendingRuleFrame(new_clause, goal, None), SetResolvedFrame(goal, move)>>
        ELSE <<SetResolvedFrame(goal, FALSE)>>

\* add_rule's two loops.  n = 1: the loop over the matching goals of the
\* goal index; each pass ends by fetching the matching stuck goals into
\* candidate_goals.  n = 2: the loop over candidate_goals as the first loop
\* left it: the stuck goals if the first loop ran at all, else the (empty)
\* list of the first loop.
AddRuleFrame(rule, cands, phase) ==
    [F0 EXCEPT !.op = "add_rule", !.rule = rule, !.cands = cands, !.i = 1, !.n = phase]

StepAddRule ==
    /\ Running("add_rule")
    /\ LET rule == Top.rule
           rest == Tail(stack)
           next == [Top EXCEPT !.i = @ + 1]
       IN  stack' =
             IF Top.i <= Len(Top.cands)
             THEN ResolveGoalWithRuleFrames(Top.cands[Top.i], rule, Top.n = 2)
                      \o <<next>> \o rest
             ELSE IF Top.n = 1
             THEN <<AddRuleFrame(rule,
                       IF Len(Top.cands) > 0
                       THEN get_candidate_matchings(db_stuck_goals, rule[1])
                       ELSE Top.cands, 2)>> \o rest
             ELSE rest
    /\ Becomes(Cur)
    /\ UNCHANGED <<jobs, calls, propagated, program, rlock, inferencing_clear>>

\* The end of resolve_goal_with_rule, and add_rule's move_stuck_goal_to_goal.
StepSetResolved ==
    /\ Running("set_resolved")
    /\ LET L1 == set_goal_to_resolved(Cur, Top.goal)
       IN  IF ~Top.flag THEN Becomes(L1) /\ stack' = Tail(stack)
           ELSE IF MoveAsserts(L1, Top.goal)
           THEN Becomes(move_stuck_goal_to_goal(L1, Top.goal)) /\ stack' = Tail(stack)
           ELSE Becomes(db_move_stuck_goal_to_goal(L1, Top.goal)) /\ stack' = <<RaisedFrame>>
    /\ UNCHANGED <<jobs, calls, propagated, program, rlock, inferencing_clear>>

\* add_error: the error claim is forced into the claim list of the goal,
\* unless the claims index already holds it.
add_error(L, goal, error) ==
    IF db_mem_claim(L, error) THEN L
    ELSE move_stuck_goal_to_goal(
             db_add_claim_to_goal(db_add_claim(db_add_clause(L, error), error),
                                  goal, error), goal)

\* add_errors: add_error for each error of the list.
RECURSIVE add_errors(_, _, _)
add_errors(L, goal, errors) ==
    IF Len(errors) = 0 THEN L
    ELSE add_errors(add_error(L, goal, Head(errors)), goal, Tail(errors))

StepAddErrors ==
    /\ Running("add_errors")
    /\ Becomes(add_errors(Cur, Top.goal, Top.cands))
    /\ stack' = Tail(stack)
    /\ UNCHANGED <<jobs, calls, propagated, program, rlock, inferencing_clear>>

\* push_no_solutions: move_stuck_goal_to_goal and its assertion.
StepPushNoSolutions ==
    /\ Running("push_no_solutions")
    /\ IF MoveAsserts(Cur, Top.goal)
       THEN Becomes(move_stuck_goal_to_goal(Cur, Top.goal)) /\ stack' = Tail(stack)
       ELSE Becomes(db_move_stuck_goal_to_goal(Cur, Top.goal)) /\ stack' = <<RaisedFrame>>
    /\ UNCHANGED <<jobs, calls, propagated, program, rlock, inferencing_clear>>

\* One iteration of add_claims' loop over the batch: add_claim of the item.
StepAddClaims ==
    /\ Running("add_claims")
    /\ stack' = IF Top.i > Len(Top.cands) THEN Tail(stack)
                ELSE <<AddClaimFrame(Top.cands[Top.i]), [Top EXCEPT !.i = @ + 1]>>
                         \o Tail(stack)
    /\ Becomes(Cur)
    /\ UNCHANGED <<jobs, calls, propagated, program, rlock, inferencing_clear>>

\* Inference.lock: the flag is cleared, the lock of the graph is taken.
lock ==
    /\ inferencing_clear' = FALSE
    /\ rlock' = rlock + 1

\* Inference.unlock: the flag is set, the lock is released once.
StepUnlock ==
    /\ Running("unlock")
    /\ inferencing_clear' = TRUE
    /\ rlock' = rlock - 1
    /\ stack' = Tail(stack)
    /\ Becomes(Cur)
    /\ UNCHANGED <<jobs, calls, propagated, program>>

\* ------------------------------------------------------------------------
\* graph.py: the closing algorithm
\* ------------------------------------------------------------------------
\* len(annotation.item): the literals of a clause, the terms of a goal.
ItemLen(node) == IF node.kind = GOAL THEN Len(node.item[1]) ELSE Len(node.item)

Truthy(v) == v # NoneInt /\ v # 0

ClosedOrCompleted(a) == a.status = CLOSED \/ a.status = COMPLETED

SeqToSet(s) == {s[i] : i \in 1..Len(s)}

MinOf(S) == CHOOSE m \in S : \A x \in S : m <= x

\* can_close_to_goal_be_applied without its test of the younger goals.
can_close_whatever_younger(L, node) ==
    LET annotation_node == L.ann[node]
    IN  /\ annotation_node.status \in {RESOLVED, CLOSED, COMPLETED}
        /\ \A j \in SeqToSet(get_children(L, node)) :
               ~(ItemLen(j) > 1 /\ ~has_subgoal(L, j))
        /\ \A h \in DOMAIN L.ann :
             LET h_annotation == L.ann[h]
                 gTh == IF h.kind = GOAL /\ h.item[1] \in DOMAIN annotation_node.gT
                        THEN annotation_node.gT[h.item[1]] ELSE << >>
             IN  \A j \in SeqToSet(gTh) :
                      /\ RuleNode(j) \in DOMAIN L.ann
                      /\ L.ann[RuleNode(j)].subgoalindex = Len(h_annotation.claims)
                      /\ \A j_prime \in SeqToSet(get_children(L, RuleNode(j))) :
                           j_prime.kind = PENDING_CLAUSE =>
                               ~(ItemLen(j_prime) # 1 /\ ~has_subgoal(L, j_prime))

\* can_close_to_goal_be_applied without its test of the subgoalindex.
can_close_whatever_subgoalindex(L, node) ==
    LET annotation_node == L.ann[node]
    IN  /\ annotation_node.status \in {RESOLVED, CLOSED, COMPLETED}
        /\ \A j \in SeqToSet(get_children(L, node)) :
               ~(ItemLen(j) > 1 /\ ~has_subgoal(L, j))
        /\ \A h \in DOMAIN L.ann :
             LET h_annotation == L.ann[h]
                 gTh == IF h.kind = GOAL /\ h.item[1] \in DOMAIN annotation_node.gT
                        THEN annotation_node.gT[h.item[1]] ELSE << >>
                 index_h_smaller_than_node == h_annotation.index <= annotation_node.index
                 h_closed ==
                     \/ h_annotation.status = COMPLETED
                     \/ /\ h_annotation.status = CLOSED
                        /\ \/ ~Truthy(h_annotation.gUnclosed)
                           \/ h_annotation.gUnclosed <= annotation_node.index
             IN  /\ ~(Len(gTh) > 0 /\ ~index_h_smaller_than_node /\ ~h_closed)
                 /\ \A j \in SeqToSet(gTh) :
                      /\ RuleNode(j) \in DOMAIN L.ann
                      /\ \A j_prime \in SeqToSet(get_children(L, RuleNode(j))) :
                           j_prime.kind = PENDING_CLAUSE =>
                               ~(ItemLen(j_prime) # 1 /\ ~has_subgoal(L, j_prime))

can_close_to_goal_be_applied(L, node) ==
    LET annotation_node == L.ann[node]
    IN  /\ annotation_node.status \in {RESOLVED, CLOSED, COMPLETED}
        /\ \A j \in SeqToSet(get_children(L, node)) :
               ~(ItemLen(j) > 1 /\ ~has_subgoal(L, j))
        /\ \A h \in DOMAIN L.ann :
             LET h_annotation == L.ann[h]
                 gTh == IF h.kind = GOAL /\ h.item[1] \in DOMAIN annotation_node.gT
                        THEN annotation_node.gT[h.item[1]] ELSE << >>
                 index_h_smaller_than_node == h_annotation.index <= annotation_node.index
                 h_closed ==
                     \/ h_annotation.status = COMPLETED
                     \/ /\ h_annotation.status = CLOSED
                        /\ \/ ~Truthy(h_annotation.gUnclosed)
                           \/ h_annotation.gUnclosed <= annotation_node.index
             IN  /\ ~(Len(gTh) > 0 /\ ~index_h_smaller_than_node /\ ~h_closed)
                 /\ \A j \in SeqToSet(gTh) :
                      /\ RuleNode(j) \in DOMAIN L.ann
                      /\ L.ann[RuleNode(j)].subgoalindex = Len(h_annotation.claims)
                      /\ \A j_prime \in SeqToSet(get_children(L, RuleNode(j))) :
                           j_prime.kind = PENDING_CLAUSE =>
                               ~(ItemLen(j_prime) # 1 /\ ~has_subgoal(L, j_prime))

\* update_tau: tau[node][h] for the goals h not younger than node.
tau_g_h(L, node, h) ==
    LET node_annotation == L.ann[node]
        vals == {L.ann[GoalNode(h_prime)].gD[h.item[1]] :
                    h_prime \in {hp \in DOMAIN node_annotation.gT :
                        /\ GoalNode(hp) \in DOMAIN L.ann
                        /\ ClosedOrCompleted(L.ann[GoalNode(hp)])
                        /\ Len(node_annotation.gT[hp]) > 0
                        /\ h.item[1] \in DOMAIN L.ann[GoalNode(hp)].gD
                        /\ L.ann[GoalNode(hp)].gD[h.item[1]] # NoneInt}}
    IN  IF vals = {} THEN NoneInt ELSE MinOf(vals)

GoalNodesBelow(L, node, strict) ==
    {h \in DOMAIN L.ann :
        /\ h.kind = GOAL
        /\ IF strict THEN L.ann[h].index < L.ann[node].index
           ELSE L.ann[h].index <= L.ann[node].index}

\* transitively_complete: the node and every goal reached through the keys
\* of gT that is not Completed yet.
RECURSIVE CompleteReach(_, _, _)
CompleteReach(L, todo, done) ==
    IF todo = {} THEN done
    ELSE LET g == CHOOSE x \in todo : TRUE
             more == {GoalNode(h) : h \in DOMAIN L.ann[g].gT}
             fresh == {x \in more : x \notin done /\ x \notin todo
                                    /\ L.ann[x].status # COMPLETED}
         IN  CompleteReach(L, (todo \ {g}) \cup fresh, done \cup {g})

transitively_complete(L, node) ==
    LET reach == CompleteReach(L, {node}, {})
    IN  [L EXCEPT !.ann = [x \in DOMAIN L.ann |->
            IF x \in reach THEN [L.ann[x] EXCEPT !.status = COMPLETED] ELSE L.ann[x]]]

\* recompute_unclosed keeps the index of the first h with a true gD[h] in
\* max_h_so_far and, at a second such h, reads max_h_so_far.index of that
\* integer: it raises.
RecomputeRaises(L, node) ==
    Cardinality({h \in DOMAIN L.ann[node].gD : Truthy(L.ann[node].gD[h])}) > 1

recompute_unclosed(L, node) ==
    LET gD == L.ann[node].gD
        true_h == {h \in DOMAIN gD : Truthy(gD[h])}
    IN  [L EXCEPT !.ann[node].gUnclosed =
            IF true_h = {} THEN NoneInt
            ELSE L.ann[GoalNode(CHOOSE h \in true_h : TRUE)].index]

\* close_node: gD[h] for every older goal h; then transitively_complete
\* when gD stayed undefined everywhere, recompute_unclosed otherwise.
NewGD(L, node, h) ==
    LET annotation_node == L.ann[node]
        h_annot == L.ann[h]
        key == h.item[1]
        tau == tau_g_h(L, node, h)
    IN  IF /\ key \in DOMAIN annotation_node.gT
           /\ Len(annotation_node.gT[key]) > 0
           /\ ~ClosedOrCompleted(h_annot)
        THEN [v |-> IF tau = NoneInt THEN Len(h_annot.claims)
                    ELSE MinOf({Len(h_annot.claims), tau}),
              defined |-> TRUE]
        ELSE IF Truthy(tau) /\ ~ClosedOrCompleted(h_annot)
        THEN [v |-> tau, defined |-> TRUE]
        ELSE [v |-> NoneInt, defined |-> FALSE]

close_node(L, node) ==
    LET below == GoalNodesBelow(L, node, TRUE)
        keys == {h.item[1] : h \in below}
        old == L.ann[node].gD
        L1 == [L EXCEPT !.ann[node].gD =
                  [k \in keys \cup DOMAIN old |->
                      IF k \in keys THEN NewGD(L, node, GoalNode(k)).v ELSE old[k]]]
        gd_everywhere_undefined == \A h \in below : ~NewGD(L, node, h).defined
    IN  IF gd_everywhere_undefined
        THEN [L |-> transitively_complete(L1, node), raised |-> FALSE]
        ELSE IF RecomputeRaises(L1, node) THEN [L |-> L1, raised |-> TRUE]
        ELSE [L |-> recompute_unclosed(L1, node), raised |-> FALSE]

never_closes(L, node) == [L |-> L, raised |-> FALSE]

close_goal(L, node) ==
    IF can_close_to_goal_be_applied(L, node)
    THEN LET tau == tau_g_h(L, node, node)
         IN  IF ~Truthy(tau) \/ tau = Len(L.ann[node].claims)
             THEN close_node([L EXCEPT !.ann[node].status = CLOSED], node)
             ELSE [L |-> [L EXCEPT !.ann[node].status = RESOLVED], raised |-> FALSE]
    ELSE [L |-> L, raised |-> FALSE]

\* close: the goal nodes from the highest index to the lowest; an exception
\* ends the sweep where it is raised.
RECURSIVE sorted_highest_index_first(_, _)
sorted_highest_index_first(L, S) ==
    IF S = {} THEN << >>
    ELSE LET top == CHOOSE n \in S : \A x \in S : L.ann[x].index <= L.ann[n].index
         IN  <<top>> \o sorted_highest_index_first(L, S \ {top})

RECURSIVE CloseSweep(_, _)
CloseSweep(L, order) ==
    IF Len(order) = 0 THEN L
    ELSE LET r == close_goal(L, Head(order))
         IN  IF r.raised THEN r.L ELSE CloseSweep(r.L, Tail(order))

close(L) ==
    CloseSweep(L, sorted_highest_index_first(L, {n \in DOMAIN L.ann : n.kind = GOAL}))

\* close() is left by the exception of recompute_unclosed.
RECURSIVE CloseSweepRaises(_, _)
CloseSweepRaises(L, order) ==
    IF Len(order) = 0 THEN FALSE
    ELSE LET r == close_goal(L, Head(order))
         IN  r.raised \/ CloseSweepRaises(r.L, Tail(order))

close_raises(L) ==
    CloseSweepRaises(L, sorted_highest_index_first(L, {n \in DOMAIN L.ann : n.kind = GOAL}))

\* model.py, no_stuck_subgoals: the children created after the node are
\* followed; a node without such children answers for itself.
RECURSIVE no_stuck_subgoals(_, _)
no_stuck_subgoals(L, node) ==
    LET children == get_children(L, node)
        bigger_children == {c \in SeqToSet(children) :
                               c \in DOMAIN L.ann => L.ann[c].index > L.ann[node].index}
    IN  IF bigger_children # {}
        THEN \A child \in bigger_children : no_stuck_subgoals(L, child)
        ELSE IF node.kind = GOAL /\ is_stuck_goal(L, node.item[1]) THEN FALSE
        ELSE TRUE

\* is_immediate_subgoal hands the annotation of a child, not the child, to
\* get_annotations_of_children: no annotation is a node of the graph, so the
\* child has no children and the test is never true.
is_immediate_subgoal(L, node1, node2) ==
    \E child \in SeqToSet(get_children(L, node2)) :
        \E c \in SeqToSet(<< >>) : c.kind = GOAL /\ c = node1

\* complete: one pass over the nodes in the order of nodes_to_annotations.
complete_node(L, node) ==
    LET annotation == L.ann[node]
        everywhere_undefined ==
            \A h \in DOMAIN L.ann :
                ~(h.kind = GOAL /\ h.item[1] \in DOMAIN annotation.gD
                                /\ Truthy(annotation.gD[h.item[1]]))
    IN  IF ~no_stuck_subgoals(L, node) THEN L
        ELSE IF annotation.status # CLOSED THEN L
        ELSE IF everywhere_undefined
        THEN [L EXCEPT !.ann[node].status = COMPLETED]
        ELSE IF \E h \in DOMAIN L.ann :
                    is_immediate_subgoal(L, node, h) /\ L.ann[h].status = COMPLETED
        THEN [L EXCEPT !.ann[node].status = COMPLETED]
        ELSE L

RECURSIVE CompleteSweep(_, _)
CompleteSweep(L, i) ==
    IF i > Len(L.nodes) THEN L
    ELSE CompleteSweep(complete_node(L, L.nodes[i]), i + 1)

complete(L) == CompleteSweep(L, 1)

\* close_and_complete: close(), then complete().
close_and_complete(L) == complete(close(L))

\* LogicalState.is_completed: the status of the renaming of the goal that
\* one of the two indexes holds, or of the goal itself.
is_completed(L, goal) ==
    LET pgoal == is_renaming_present_of_goal(L, goal)
        node == GoalNode(IF pgoal # None THEN pgoal ELSE goal)
    IN  node \in DOMAIN L.ann /\ L.ann[node].status = COMPLETED

\* Inference.get_claims_matching_goal: the claim list of the annotation of
\* the goal (of its renaming in the indexes when there is one), the first
\* component of the pair it returns; the empty list without an annotation.
get_claims_matching_goal(L, goal) ==
    LET pgoal == is_renaming_present_of_goal(L, goal)
        node == GoalNode(IF pgoal # None THEN pgoal ELSE goal)
    IN  IF node \in DOMAIN L.ann THEN L.ann[node].claims ELSE << >>

\* ------------------------------------------------------------------------
\* The clients: what a run may hand to the engine
\* ------------------------------------------------------------------------
\* X, Y, Z are the variables -1, -2, -3 of the term factory.
pX == <<sym.p, -1>>
p1 == <<sym.p, sym.c1>>
p2 == <<sym.p, sym.c2>>
t1 == <<sym.t, sym.c1>>
tX == <<sym.t, -1>>
gt1 == <<sym.gt, sym.c1>>
gtX == <<sym.gt, -1>>
lt2 == <<sym.lt, sym.c2>>
lt1 == <<sym.lt, sym.c1>>
q1 == <<sym.q, sym.c1>>
eXY == <<sym.e, -1, -2>>
eXZ == <<sym.e, -1, -3>>
eYX == <<sym.e, -2, -1>>
err1 == <<sym.error, sym.c1>>
pathaX == <<sym.path, sym.a, -1>>
pathXY == <<sym.path, -1, -2>>
pathXZ == <<sym.path, -1, -3>>
pathZY == <<sym.path, -3, -2>>
edgeXY == <<sym.edge, -1, -2>>
edgeXZ == <<sym.edge, -1, -3>>
edgeZY == <<sym.edge, -3, -2>>
edgeab == <<sym.edge, sym.a, sym.b>>
edgebc == <<sym.edge, sym.b, sym.c>>
pathab == <<sym.path, sym.a, sym.b>>
pathac == <<sym.path, sym.a, sym.c>>

\* A run draws its calls from one of these: the goals asked, the rules of
\* the knowledge base, the rules handed to add_pending_rule with their
\* goal, the claims handed to add_claim, the list handed to add_claims, and
\* the rules that are added, in this order, before the clients start (kb).
Program(goals, rules, pending, claims, batch, kb) ==
    [goals |-> goals, rules |-> rules, pending |-> pending, claims |-> claims,
     batch |-> batch, kb |-> kb]

\* test_path1: the reachability program, recursive on the right.
PathRight == << <<pathXY, edgeXY>>, <<pathXY, edgeXZ, pathZY>>, <<edgeab>>, <<edgebc>> >>

\* test_engine_is_completed, test_path_close: recursive on the left.
PathLeft == << <<pathXY, edgeXY>>, <<pathXY, pathXZ, edgeZY>>, <<edgeab>>, <<edgebc>> >>

Programs ==
    << Program({pX, p1}, {<<p1>>}, {}, {<<p1>>}, << >>, << >>),
       Program({pX}, {<<p1>>, <<p2>>, <<pX, pX>>}, {}, {}, << >>, << >>),
       Program({gt1, p1}, {}, {<< <<p1, gt1>>, p1 >>}, {}, << >>, << >>),
       Program({gtX, eXY, eXZ, eYX, t1}, {<<t1, gt1>>}, {}, {}, << >>, << >>),
       Program({p1}, {<<pX, tX>>, <<t1>>}, {}, {}, << >>, << >>),
       Program({pX}, {<<p1>>}, {}, {}, << <<p1>>, <<p2>> >>, << >>),
       Program({lt1, gt1}, {<<gtX, tX>>}, {}, {<<gt1>>}, << >>, << >>),
       Program({lt1, lt2, q1}, {}, {<< <<q1, lt1, lt2>>, q1 >>}, {}, << >>, << >>),
       Program({pathaX}, {}, {}, {}, << >>, PathRight),
       Program({pathaX}, {}, {}, {}, << >>, PathLeft),
       Program({pathXY}, {}, {}, {}, << >>, PathLeft),
       Program({t1, p1, q1}, {}, {<< <<q1, p1>>, q1 >>}, {}, << >>,
               << <<t1>>, <<p1, t1>> >>) >>

\* ------------------------------------------------------------------------
\* engine.py: the entry points (lock; the Inference call; unlock)
\* ------------------------------------------------------------------------
Idle == stack = << >>

\* A call of a client: the rules of the knowledge base have been added.
Call == Len(program.kb) = 0 /\ calls < MaxCalls /\ calls' = calls + 1

AddGoal(goal) ==
    /\ Idle /\ Call /\ lock
    /\ stack' = <<AddGoalFrame(goal), UnlockFrame>>
    /\ Becomes(Cur)
    /\ UNCHANGED <<jobs, propagated, program>>

\* Engine.add_rule and Inference.add_rule up to its first loop.
AddRule(rule) ==
    /\ Idle /\ Call /\ lock
    /\ IF db_mem(Cur, rule)
       THEN Becomes(Cur) /\ stack' = <<UnlockFrame>>
       ELSE /\ Becomes(db_add_rule(db_add_clause(Cur, rule), rule))
            /\ stack' = <<AddRuleFrame(rule, get_candidate_matchings(db_goals, rule[1]), 1),
                          UnlockFrame>>
    /\ UNCHANGED <<jobs, propagated, program>>

\* The knowledge base is loaded before any client calls (load_rules, or the
\* add_rule calls that open a test): Engine.add_rule of its next rule.
LoadRule ==
    /\ Idle /\ Len(program.kb) > 0 /\ lock
    /\ LET rule == Head(program.kb)
       IN  IF db_mem(Cur, rule)
           THEN Becomes(Cur) /\ stack' = <<UnlockFrame>>
           ELSE /\ Becomes(db_add_rule(db_add_clause(Cur, rule), rule))
                /\ stack' = <<AddRuleFrame(rule, get_candidate_matchings(db_goals, rule[1]), 1),
                              UnlockFrame>>
    /\ program' = [program EXCEPT !.kb = Tail(@)]
    /\ UNCHANGED <<jobs, calls, propagated>>

\* Engine.add_claim: the claim is the one-literal clause [internal_claim].
AddClaim(claim) ==
    /\ Idle /\ Call /\ lock
    /\ stack' = <<AddClaimFrame(claim), UnlockFrame>>
    /\ Becomes(Cur)
    /\ UNCHANGED <<jobs, propagated, program>>

\* Engine.add_claims: the claims of the list, under one lock section.
AddClaims(claims) ==
    /\ Idle /\ Call /\ lock
    /\ Len(claims) > 0
    /\ stack' = <<AddClaimsFrame(claims), UnlockFrame>>
    /\ Becomes(Cur)
    /\ UNCHANGED <<jobs, propagated, program>>

\* Engine.add_pending_rule for a rule with a body and a goal.
AddPendingRule(rule, goal) ==
    /\ Idle /\ Call /\ lock
    /\ ~is_fact(rule)
    /\ stack' = <<AddPendingRuleFrame(rule, goal, None), UnlockFrame>>
    /\ Becomes(Cur)
    /\ UNCHANGED <<jobs, propagated, program>>

\* A sweep that does not wait for the lock of the graph.
enter_without_lock == TRUE

\* DependencyGraph.__enter__ as a thread outside the entry points meets it:
\* the lock of the graph is free.
lock_never_free == FALSE

graph_enter == rlock = 0

\* Engine.close and Engine.complete: the sweeps take the lock of the graph,
\* which lock() holds for the length of an entry point.
Close ==
    /\ graph_enter
    /\ Becomes(close(Cur))
    /\ UNCHANGED <<stack, jobs, calls, propagated, program, rlock, inferencing_clear>>

Complete ==
    /\ graph_enter
    /\ Becomes(complete(Cur))
    /\ UNCHANGED <<stack, jobs, calls, propagated, program, rlock, inferencing_clear>>

\* ------------------------------------------------------------------------
\* interpret_state.py: the handler of an interpreted goal, on its pool thread
\* or, for a synchronous handler, in the thread that is inside add_goal
\* ------------------------------------------------------------------------
JobAt(goal, where) == goal \in DOMAIN jobs /\ jobs[goal] \in where

JobTo(goal, where) == jobs' = [jobs EXCEPT ![goal] = where]

\* The thread of the handler is at a line of _interpret or of the function
\* that handles the output.
HandlerRuns(goal) ==
    handler_is_async(goal) \/ (Running("interpret") /\ Top.goal = goal)

\* The handler calls an entry point of the Engine: its thread takes the lock,
\* which is free, or which it holds already.
HandlerLocks(goal) ==
    /\ IF handler_is_async(goal) THEN Idle
       ELSE Running("interpret") /\ Top.goal = goal
    /\ lock

\* _handle_output_new_api unsticks the goal before it calls the engine, and
\* without the lock: whatever the inference thread is doing.
HandlerMove(goal) ==
    /\ JobAt(goal, {"run"})
    /\ HandlerRuns(goal)
    /\ Becomes(db_move_stuck_goal_to_goal(Cur, goal))
    /\ JobTo(goal, "moved")
    /\ UNCHANGED <<stack, calls, propagated, program, rlock, inferencing_clear>>

\* No rules and no claims (wrapper.Failure), or the errors have been added:
\* push_no_solutions.
HandlerFailure(goal) ==
    /\ JobAt(goal, {"moved", "errors"})
    /\ HandlerLocks(goal)
    /\ stack' = <<PushNoSolutionsFrame(goal), UnlockFrame>> \o stack
    /\ Becomes(Cur)
    /\ JobTo(goal, "done")
    /\ UNCHANGED <<calls, propagated, program>>

\* wrapper.Errors: add_errors, with push_no_solutions to follow.
HandlerErrors(goal) ==
    /\ JobAt(goal, {"moved"})
    /\ HandlerLocks(goal)
    /\ stack' = <<AddErrorsFrame(goal, << <<err1>> >>), UnlockFrame>> \o stack
    /\ Becomes(Cur)
    /\ JobTo(goal, "errors")
    /\ UNCHANGED <<calls, propagated, program>>

\* wrapper.Success: the goal itself as a rule without body.  Engine.
\* add_pending_rule first adds its head as a claim, in a lock section of its
\* own, ...
HandlerSuccess(goal) ==
    /\ JobAt(goal, {"moved"})
    /\ HandlerLocks(goal)
    /\ is_ground(goal)
    /\ stack' = <<AddClaimFrame(<<goal>>), UnlockFrame>> \o stack
    /\ Becomes(Cur)
    /\ JobTo(goal, "claimed")
    /\ UNCHANGED <<calls, propagated, program>>

\* ... and then adds the pending rule with the goal as its explanation.
HandlerRule(goal) ==
    /\ JobAt(goal, {"claimed"})
    /\ HandlerLocks(goal)
    /\ stack' = <<AddPendingRuleFrame(<<goal>>, goal, None), UnlockFrame>> \o stack
    /\ Becomes(Cur)
    /\ JobTo(goal, "done")
    /\ UNCHANGED <<calls, propagated, program>>

\* The handler returned the empty list (the old way of returning results):
\* _process_output calls push_no_solutions for the goal, which is stuck
\* still.
HandlerNoOutput(goal) ==
    /\ JobAt(goal, {"run"})
    /\ HandlerLocks(goal)
    /\ stack' = <<PushNoSolutionsFrame(goal), UnlockFrame>> \o stack
    /\ Becomes(Cur)
    /\ JobTo(goal, "processed")
    /\ UNCHANGED <<calls, propagated, program>>

\* The handler raised, or returned None: _interpret makes the dictionary
\* {'claims': 'error(...)'} of it and hands it to _process_output, whose
\* loop walks the keys of the dictionary; the one key is a string, neither
\* a Claim nor a dict, and nothing is done with it.
HandlerRaises(goal) ==
    /\ JobAt(goal, {"run"})
    /\ HandlerRuns(goal)
    /\ JobTo(goal, "failed")
    /\ Becomes(Cur)
    /\ UNCHANGED <<stack, calls, propagated, program, rlock, inferencing_clear>>

\* The handler returned something that is neither a Result nor a list nor a
\* dictionary: _interpret raises.  On the pool the exception ends the task;
\* a synchronous handler is inside add_goal, between lock and unlock.
HandlerBadOutput(goal) ==
    /\ JobAt(goal, {"run"})
    /\ HandlerRuns(goal)
    /\ JobTo(goal, "done")
    /\ stack' = IF handler_is_async(goal) THEN stack ELSE <<RaisedFrame>>
    /\ Becomes(Cur)
    /\ UNCHANGED <<calls, propagated, program, rlock, inferencing_clear>>

Init ==
    /\ db_all = {}
    /\ db_heads = << >>
    /\ db_claims = << >>
    /\ db_goals = << >>
    /\ db_stuck_goals = << >>
    /\ global_time = 0
    /\ nodes = << >>
    /\ ann = EmptyMap
    /\ graph = EmptyMap
    /\ parents = EmptyMap
    /\ stack = << >>
    /\ jobs = EmptyMap
    /\ calls = 0
    /\ propagated = << >>
    /\ program \in {Programs[i] : i \in 1..Len(Programs)}
    /\ rlock = 0
    /\ inferencing_clear = TRUE

Next ==
    \/ \E goal \in program.goals : AddGoal(goal)
    \/ \E rule \in program.rules : AddRule(rule)
    \/ LoadRule
    \/ \E claim \in program.claims : AddClaim(claim)
    \/ AddClaims(program.batch)
    \/ \E pr \in program.pending : AddPendingRule(pr[1], pr[2])
    \/ Close
    \/ Complete
    \/ \E goal \in DOMAIN jobs : HandlerMove(goal)
    \/ \E goal \in DOMAIN jobs : HandlerFailure(goal)
    \/ \E goal \in DOMAIN jobs : HandlerErrors(goal)
    \/ \E goal \in DOMAIN jobs : HandlerSuccess(goal)
    \/ \E goal \in DOMAIN jobs : HandlerRule(goal)
    \/ \E goal \in DOMAIN jobs : HandlerNoOutput(goal)
    \/ \E goal \in DOMAIN jobs : HandlerRaises(goal)
    \/ \E goal \in DOMAIN jobs : HandlerBadOutput(goal)
    \/ StepAddGoal
    \/ StepInterpret
    \/ StepAfterInterpret
    \/ StepResolveGoal
    \/ StepAddPendingRule
    \/ StepAddClaim
    \/ StepResolveClaim
    \/ StepPropagateClaims
    \/ StepAddRule
    \/ StepSetResolved
    \/ StepAddErrors
    \/ StepPushNoSolutions
    \/ StepAddClaims
    \/ StepUnlock

Spec == Init /\ [][Next]_vars

\* LogicalState.clear, as Engine.clear and Inference.clear relay to it: the
\* indexes are emptied and the global time is set to 0; nothing there
\* touches goal_dependencies, so the nodes and their annotations stay.
\* (TermFactory.clear, which forgets the numbers of the symbols, is left
\* out: the literals of the model keep their numbers.)
clear(L) ==
    [L EXCEPT !.db_all = {}, !.db_claims = << >>, !.db_heads = << >>,
              !.db_goals = << >>, !.db_stuck_goals = << >>, !.global_time = 0]

\* Engine.clear called by a client between two calls, as the tests do.
Clear ==
    /\ Idle /\ Call
    /\ Becomes(clear(Cur))
    /\ UNCHANGED <<stack, jobs, propagated, program, rlock, inferencing_clear>>

\* The engine with clients that also call clear().
ClearNext == Next \/ Clear

ClearSpec == Init /\ [][ClearNext]_vars

\* Inference.check_stuck_goals(newpreds): the stuck goals are fetched once,
\* before the loop.  flag: the goal at i has been handed to its interpreter.
CheckStuckGoalsFrame(L, newpreds) ==
    [F0 EXCEPT !.op = "check_stuck_goals", !.cands = L.db_stuck_goals,
               !.from = newpreds, !.i = 1]

\* One iteration of the loop of check_stuck_goals.  A goal whose predicate
\* is among newpreds goes to its interpreter again (the job of the model
\* starts over) and is set Resolved; every goal is then given to
\* resolve_goal, and unstuck when that returns True.
StepCheckStuckGoals ==
    /\ Running("check_stuck_goals")
    /\ LET rest == Tail(stack)
           goal == Top.cands[Top.i]
           next == [Top EXCEPT !.i = @ + 1, !.flag = FALSE]
       IN  IF Top.i > Len(Top.cands)
           THEN /\ Becomes(Cur) /\ stack' = rest /\ UNCHANGED jobs
           ELSE IF ~Top.flag /\ InSeq(goal[1], Top.from) /\ is_interpreted(goal)
           THEN /\ Becomes(Cur)
                /\ jobs' = (goal :> "run") @@ jobs
                /\ stack' = (IF handler_is_async(goal) THEN << >>
                              ELSE <<InterpretFrame(goal)>>)
                                 \o <<[Top EXCEPT !.flag = TRUE]>> \o rest
           ELSE LET L1 == IF Top.flag THEN set_goal_to_resolved(Cur, goal) ELSE Cur
                IN  /\ Becomes(L1)
                    /\ stack' = <<ResolveGoalFrame(L1, goal, TRUE), next>> \o rest
                    /\ UNCHANGED jobs
    /\ UNCHANGED <<calls, propagated, program, rlock, inferencing_clear>>

\* The lists of new predicates a caller passes: none, or the interpreted ones.
NewPreds == {<< >>, <<sym.gt, sym.lt>>}

\* Inference.check_stuck_goals(newpreds) between lock() and unlock(), as
\* test_is_stuck_goal calls it.
InferenceCheckStuckGoals(newpreds) ==
    /\ Idle /\ Call /\ lock
    /\ stack' = <<CheckStuckGoalsFrame(Cur, newpreds), UnlockFrame>>
    /\ Becomes(Cur)
    /\ UNCHANGED <<jobs, propagated, program>>

\* Engine.check_stuck_goals: lock(), then Inference.check_stuck_goals()
\* without its argument newpreds, which raises TypeError before the body
\* runs; unlock() is not reached.
CheckStuckGoals ==
    /\ Idle /\ Call /\ lock
    /\ stack' = <<RaisedFrame>>
    /\ Becomes(Cur)
    /\ UNCHANGED <<jobs, propagated, program>>

\* The engine with clients that also ask to recheck the stuck goals.
StuckNext ==
    \/ Next
    \/ CheckStuckGoals
    \/ \E newpreds \in NewPreds : InferenceCheckStuckGoals(newpreds)
    \/ StepCheckStuckGoals

StuckSpec == Init /\ [][StuckNext]_vars

\* test_path_close: the rules of a path program are added, then one thread
\* calls add_goal while the thread of the loop calls close() and complete().
\* The scheduler lets each thread run: the one that adds the rules, the one
\* that is inside an entry point, and the one of the loop.
PathInit == Init /\ program.goals = {pathaX}

PathInferencing ==
    \/ StepAddGoal \/ StepResolveGoal \/ StepAddPendingRule \/ StepAddClaim
    \/ StepResolveClaim \/ StepPropagateClaims \/ StepAddRule \/ StepUnlock

PathNext ==
    \/ LoadRule
    \/ \E goal \in program.goals : AddGoal(goal)
    \/ PathInferencing
    \/ Close
    \/ Complete

\* ENABLED <<Close>>_vars and ENABLED <<Complete>>_vars, written out: the
\* lock of the graph is free and the sweep changes an annotation.  The last
\* two conjuncts of PathCloseSpec are WF_vars(Close) and WF_vars(Complete).
CloseChanges == graph_enter /\ close(Cur) # Cur

CompleteChanges == graph_enter /\ complete(Cur) # Cur

PathCloseSpec ==
    /\ PathInit /\ [][PathNext]_vars
    /\ WF_vars(LoadRule)
    /\ WF_vars(\E goal \in program.goals : AddGoal(goal))
    /\ WF_vars(PathInferencing)
    /\ ([]<>~CloseChanges \/ []<><<Close>>_vars)
    /\ ([]<>~CompleteChanges \/ []<><<Complete>>_vars)

\* ------------------------------------------------------------------------
\* Properties
\* ------------------------------------------------------------------------
GoalNodes == {node \in DOMAIN ann : node.kind = GOAL}

PendingNodes == {node \in DOMAIN ann : node.kind = PENDING_CLAUSE}

\* The nodes a path of graph edges leads to from the nodes of todo.
RECURSIVE Reach(_, _)
Reach(todo, seen) ==
    IF todo = {} THEN seen
    ELSE LET n == CHOOSE x \in todo : TRUE
             kids == SeqToSet(get_children(Cur, n)) \ (seen \cup todo)
         IN  Reach((todo \ {n}) \cup kids, seen \cup {n})

Descendants(node) == Reach(SeqToSet(get_children(Cur, node)), {})

StuckSubgoals(node) ==
    {h \in Descendants(node) : h.kind = GOAL /\ is_stuck_goal(Cur, h.item[1])}

IsCompleted(node) == node \in DOMAIN ann /\ ann[node].status = COMPLETED

\* C1: once a goal is Completed, no step changes its claim list.
C1_CompletedClaimsFinal ==
    [][\A g \in GoalNodes :
          IsCompleted(g) => (g \in DOMAIN ann' /\ ann'[g].claims = ann[g].claims)]_vars

\* C2: no step marks a goal Completed while one of the goals below it in
\* the dependency graph is in the stuck-goal index.
C2_NoCompletionOverStuckSubgoal ==
    [][\A g \in GoalNodes :
          (~IsCompleted(g) /\ ann'[g].status = COMPLETED) => StuckSubgoals(g) = {}]_vars

C4_GoalNodesIndexed ==
    Idle => \A g \in GoalNodes :
                is_goal(Cur, g.item[1]) # is_stuck_goal(Cur, g.item[1])

\* C5: the subgoalindex of a pending rule never exceeds the number of claims
\* of its subgoal.
C5_SubgoalIndexBounded ==
    \A P \in PendingNodes : \A g \in SeqToSet(get_children(Cur, P)) :
        g.kind = GOAL => ann[P].subgoalindex <= Len(ann[g].claims)

\* C6: no claim is propagated twice through the same pending rule.
C6_PropagatedOnce ==
    \A i \in 1..Len(propagated) : \A j \in 1..Len(propagated) :
        i # j => propagated[i] # propagated[j]

Unifies(goal, claim) ==
    /\ is_substitution(get_unification_l(claim[1], goal))
    /\ is_ground(goal) => claim[1] = goal

IsErrorClaim(claim) == claim[1][1] = sym.error

C8_GoalIsAncestor ==
    \A P \in PendingNodes :
        ann[P].goal # None => P \in Descendants(GoalNode(ann[P].goal))

\* A pending rule made bottom-up: the goal its annotation names is not one
\* of its parents, the path from the goal has more than one edge.
C8_Witness ==
    \E P \in PendingNodes :
        /\ ann[P].goal # None
        /\ GoalNode(ann[P].goal) \notin SeqToSet(get_parents(Cur, P))

\* C9: a pending rule node keeps the goal backpointer it was given: it
\* belongs to one originating goal for its whole life.
C9_OneOriginatingGoal ==
    [][\A P \in PendingNodes :
          ann[P].goal # None => ann'[P].goal = ann[P].goal]_vars

\* A variable-for-variable bijection: same constants in the same places,
\* and two places hold the same variable in one literal exactly when they do
\* in the other.
IsVariableRenaming(l1, l2) ==
    /\ Len(l1) = Len(l2)
    /\ \A i \in 1..Len(l1) :
         IF l1[i] >= 0 \/ l2[i] >= 0 THEN l1[i] = l2[i]
         ELSE \A j \in 1..Len(l1) : (l1[i] = l1[j]) <=> (l2[i] = l2[j])

RenamingIndexed(goal) ==
    \E g \in SeqToSet(db_goals) \cup SeqToSet(db_stuck_goals) : IsVariableRenaming(goal, g)

\* C10: add_goal of a variable renaming of a goal in one of the two indexes
\* leaves the nodes and annotations of the graph as they are.
C10_RenamingIdempotent ==
    [][(Running("add_goal") /\ RenamingIndexed(Top.goal))
          => (nodes' = nodes /\ ann' = ann)]_vars
\* An add_claims batch is under way: its loop is on the call stack.
BatchInProgress == \E i \in 1..Len(stack) : stack[i].op = "add_claims"

IndexesAndGraph == <<db_claims, db_heads, db_goals, db_stuck_goals, nodes, graph, parents>>

\* C12: every step that changes one of the indexes or the dependency graph
\* is taken while the lock of the graph is held: the lock that lock() takes
\* for an entry point and that close() and complete() take for a sweep.
C12_MutationsUnderLock ==
    [][IndexesAndGraph' # IndexesAndGraph => (rlock > 0 \/ rlock' > 0)]_vars

\* The thread on top of the call stack is inside _interpret for the goal and
\* the handler has not returned its output yet.
ExecutesHandler(goal) ==
    /\ goal \in DOMAIN jobs /\ jobs[goal] = "run"
    /\ Running("interpret") /\ Top.goal = goal

\* C13: the lock of the state is never held while the handler of an
\* interpreted goal is executing: the thread that runs the handler does not
\* hold the lock while it does.
C13_NoLockDuringHandler ==
    \A goal \in DOMAIN jobs : ExecutesHandler(goal) => rlock = 0

\* C14: when push_no_solutions is called for a goal of the stuck-goal index,
\* the goal is out of the stuck-goal index, in the goal index and Resolved
\* when the call returns.
C14_PushNoSolutionsUnsticks ==
    [][(/\ Running("push_no_solutions")
        /\ stack' # stack
        /\ is_stuck_goal(Cur, Top.goal))
          => (/\ ~InSeq(Top.goal, db_stuck_goals')
              /\ InSeq(Top.goal, db_goals')
              /\ ann'[GoalNode(Top.goal)].status = RESOLVED)]_vars

\* A handler returned the empty list and its push_no_solutions has returned:
\* the goal, stuck at the call, is a Resolved goal of the goal index.
C14_Witness ==
    \E goal \in DOMAIN jobs :
        /\ jobs[goal] = "processed"
        /\ \A i \in 1..Len(stack) : stack[i].op # "push_no_solutions"
        /\ InSeq(goal, db_goals) /\ ~InSeq(goal, db_stuck_goals)
        /\ ann[GoalNode(goal)].status = RESOLVED

\* C15: when add_claim has added a claim and returned, every goal that was
\* stuck and that the literal of the claim matches has left the stuck-goal
\* index and is in the goal index.
C15_MatchingClaimUnsticks ==
    [][(Running("add_claim") /\ stack' = Tail(stack))
          => \A goal \in SeqToSet(db_stuck_goals) :
                 Unifies(goal, Top.rule)
                     => ~InSeq(goal, db_stuck_goals') /\ InSeq(goal, db_goals')]_vars

\* The head of the rule unifies with the goal, the variables kept apart.
HeadUnifies(goal, rule) ==
    is_substitution(get_unification_l(shift_literal(goal, offset(rule)), rule[1]))

\* C16: when add_rule returns, no goal that the head of the added rule
\* unifies with is left in the stuck-goal index, whether or not a goal of the
\* goal index matches the head too.
C16_MatchingRuleUnsticks ==
    [][(Running("add_rule") /\ Top.n = 2 /\ Top.i > Len(Top.cands) /\ stack' = Tail(stack))
          => \A goal \in SeqToSet(db_stuck_goals') : ~HeadUnifies(goal, Top.rule)]_vars

\* C17: once the output of a handler that raised or returned nothing has
\* been handled, the claim list of its goal holds an error claim and the goal
\* is Resolved and out of the stuck-goal index.
C17_WrapperFailureResolves ==
    \A goal \in DOMAIN jobs :
        jobs[goal] = "failed"
            => /\ \E i \in 1..Len(ann[GoalNode(goal)].claims) :
                      IsErrorClaim(ann[GoalNode(goal)].claims[i])
               /\ ~InSeq(goal, db_stuck_goals)
               /\ ann[GoalNode(goal)].status = RESOLVED

\* C18: when add_errors(goal, errors) returns, every error of the list is in
\* the claim list of the goal, whatever its predicate and whether or not the
\* same error literal was added for another goal before.
C18_ErrorsAttached ==
    [][(Running("add_errors") /\ stack' = Tail(stack))
          => /\ GoalNode(Top.goal) \in DOMAIN ann'
             /\ \A i \in 1..Len(Top.cands) :
                    InSeq(Top.cands[i], ann'[GoalNode(Top.goal)].claims)]_vars

\* C19: whenever no thread is inside an entry point of the Engine (each has
\* returned, or was left by an exception), the lock of the graph is free and
\* inferencing_clear is true.
C19_LockReleased ==
    (Idle \/ Running("raised")) => (rlock = 0 /\ inferencing_clear)

\* C20: close() is total: in every state in which a thread can start the
\* sweep, the sweep visits every goal node and returns without raising.
C20_CloseTotal == graph_enter => ~close_raises(Cur)

\* What the closing algorithm keeps of a goal: status, gD and gUnclosed.
ClosingState(L) ==
    [g \in {n \in DOMAIN L.ann : n.kind = GOAL} |->
        <<L.ann[g].status, L.ann[g].gD, L.ann[g].gUnclosed>>]

\* C21: close(); complete() is idempotent: run a second time with no step
\* of the inference in between, it leaves the status, gD and gUnclosed of
\* every goal as the first run left them.
C21_CloseCompleteIdempotent ==
    graph_enter =>
        ClosingState(close_and_complete(close_and_complete(Cur)))
            = ClosingState(close_and_complete(Cur))

\* The rules of the reachability program of test_path1 are the knowledge
\* base, and add_goal(path(a, X)) has returned.
PathRightAnswered == Idle /\ db_heads = PathRight /\ is_goal(Cur, pathaX)

\* C22: for the reachability program, once add_goal(path(a, X)) has
\* returned, the claims matching the goal are path(a, b) and path(a, c),
\* each of them once, and nothing else.
C22_PathAnswers ==
    PathRightAnswered =>
        LET claims == get_claims_matching_goal(Cur, pathaX)
        IN  /\ SeqToSet(claims) = {<<pathab>>, <<pathac>>}
            /\ Len(claims) = 2

\* add_goal(path(a, X)) has returned and the goal has its two answers.
C22_Witness ==
    /\ PathRightAnswered
    /\ InSeq(<<pathac>>, ann[GoalNode(pathaX)].claims)
    /\ InSeq(<<edgebc>>, db_claims)

\* The rules of one of the two path programs are the knowledge base, and
\* add_goal(path(a, X)) has returned.
PathAnswered == Idle /\ db_heads \in {PathRight, PathLeft} /\ is_goal(Cur, pathaX)

\* C23: for the recursive path program, once add_goal(path(a, X)) has
\* returned, one close() followed by one complete() makes
\* is_completed(path(a, X)) true.
C23_PathCompleted ==
    PathAnswered => is_completed(close_and_complete(Cur), pathaX)

\* add_goal(path(a, X)) has returned, no sweep has run yet, and the goal,
\* Resolved now, is Completed by one close() and one complete().
C23_Witness ==
    /\ PathAnswered
    /\ ann[GoalNode(pathaX)].status = RESOLVED
    /\ is_completed(close_and_complete(Cur), pathaX)

\* C24: with add_goal(path(a, X)) of the recursive path program in one
\* thread and the loop of close(); complete() in another, path(a, X) is
\* Completed in the end, however the sweeps fall between the calls.
C24_PathCloseTerminates ==
    (program.goals = {pathaX}) ~> is_completed(Cur, pathaX)

\* The loop of test_path_close has ended: the left-recursive program, the
\* lock free, path(a, X) Completed and both of its answers derived.
C24_Witness ==
    /\ db_heads = PathLeft
    /\ graph_enter
    /\ is_completed(Cur, pathaX)
    /\ Len(get_claims_matching_goal(Cur, pathaX)) = 2

\* C25: add_goal of a program without interpreted predicates returns: its
\* recursion never grows until the interpreter ends it with a RuntimeError.
C25_AddGoalTerminates ==
    ~(Running("raised") /\ Top.flag)

\* The claims of the claims index that unify with the goal.
ClaimsUnifyingWith(goal) ==
    {claim \in SeqToSet(db_claims) :
        is_substitution(get_unification_l(claim[1], goal))}

\* C26: a goal whose add_goal has returned has, as the claims matching it,
\* exactly the claims of the claims index that unify with it, also when the
\* claims were added before the goal and no rule derives them.
C26_GoalReceivesEarlierClaims ==
    \A goal \in {pX, p1} :
        (Idle /\ db_heads = << >> /\ is_goal(Cur, goal))
            => SeqToSet(get_claims_matching_goal(Cur, goal)) = ClaimsUnifyingWith(goal)

NoDuplicates(s) == \A i, j \in 1..Len(s) : s[i] = s[j] => i = j

IndexesDiffer(annotations) ==
    \A m, n \in DOMAIN annotations :
        m # n => annotations[m].index # annotations[n].index

\* C28: the global time never decreases, a node gets at its insertion an
\* index greater than the index of every node inserted before it, and no
\* two nodes of the graph have the same index.
C28_TimeAndIndexes ==
    [][/\ global_time' >= global_time
       /\ \A n \in DOMAIN ann' \ DOMAIN ann :
              \A m \in DOMAIN ann : ann'[n].index > ann[m].index
       /\ IndexesDiffer(ann')]_vars

\* Engine.is_completed(goal) in the current state.
GoalIsCompleted(goal) == is_completed(Cur, goal)

\* C29: Completed is final: a goal for which is_completed is true keeps
\* that answer in every later state, whatever is called afterwards.
C29_CompletedIsFinal ==
    [][\A node \in GoalNodes :
          GoalIsCompleted(node.item[1]) => GoalIsCompleted(node.item[1])']_vars

\* C30: a goal that was dispatched to the interpret state is out of the
\* stuck-goal index once its handler has returned and its output has been
\* handled, whatever the output was.
C30_DispatchedGoalUnstuck ==
    \A goal \in DOMAIN jobs :
        (JobDone(goal) /\ Idle) => ~is_stuck_goal(Cur, goal)

\* The state after n rounds of close(); complete().
RECURSIVE Rounds(_, _)
Rounds(L, n) == IF n = 0 THEN L ELSE Rounds(close_and_complete(L), n - 1)

\* The handler of the goal ran on the pool and has delivered the goal as a
\* claim and as a rule (no client adds that claim); every call it made has
\* returned.
AnsweredAsynchronously(goal) ==
    /\ handler_is_async(goal)
    /\ goal \in DOMAIN jobs /\ jobs[goal] = "done"
    /\ <<goal>> \notin program.claims
    /\ InSeq(<<goal>>, db_claims)
    /\ Idle

\* C31: an interpreted goal answered from a worker thread is Resolved (or
\* further), and when none of its subgoals is stuck it is Completed after
\* at most MaxRounds rounds of close(); complete().
C31_AsyncGoalCompletes ==
    \A goal \in DOMAIN jobs :
        AnsweredAsynchronously(goal) =>
            /\ GoalNode(goal) \in DOMAIN ann
            /\ ann[GoalNode(goal)].status \in {RESOLVED, CLOSED, COMPLETED}
            /\ no_stuck_subgoals(Cur, GoalNode(goal)) =>
                   \E n \in 1..MaxRounds : is_completed(Rounds(Cur, n), goal)

\* C32: when no entry point is running, every pending rule with a subgoal
\* has consumed all the claims of that subgoal, error claims included.
C32_SubgoalClaimsConsumed ==
    Idle => \A P \in PendingNodes : \A g \in SeqToSet(get_children(Cur, P)) :
                g.kind = GOAL => ann[P].subgoalindex = Len(ann[g].claims)

\* The goals in the order in which close() visits them.
CloseOrder(L) == sorted_highest_index_first(L, {n \in DOMAIN L.ann : n.kind = GOAL})

\* close() of the current state just before its k-th close_goal; raised
\* when an earlier close_goal has ended the sweep.
RECURSIVE SweepBefore(_)
SweepBefore(k) ==
    IF k = 1 THEN [L |-> Cur, raised |-> FALSE]
    ELSE LET before == SweepBefore(k - 1)
         IN  IF before.raised THEN before
             ELSE close_goal(before.L, CloseOrder(Cur)[k - 1])

\* close_goal takes the goal from Open or Resolved to Closed (close_node
\* may make it Completed at once).
SetsClosed(before, after, g) ==
    /\ before.ann[g].status \notin {CLOSED, COMPLETED}
    /\ after.ann[g].status \in {CLOSED, COMPLETED}

\* h is closed enough for g: Completed, or Closed with gUnclosed undefined
\* or at most the index of g.
ClosedEnough(L, h, g) ==
    \/ L.ann[h].status = COMPLETED
    \/ /\ L.ann[h].status = CLOSED
       /\ \/ L.ann[h].gUnclosed = NoneInt
          \/ L.ann[h].gUnclosed <= L.ann[g].index

\* The goals h younger than g for which g.gT[h] is not empty.
YoungerServed(L, g) ==
    {h \in DOMAIN L.ann :
        /\ h.kind = GOAL
        /\ L.ann[h].index > L.ann[g].index
        /\ h.item[1] \in DOMAIN L.ann[g].gT
        /\ Len(L.ann[g].gT[h.item[1]]) > 0}

\* C33: no close_goal of a close() sets a goal g to Closed while a younger
\* goal h with a non-empty g.gT[h] is not closed enough.
C33_ClosedOnlyOverClosedYounger ==
    graph_enter => \A k \in 1..Len(CloseOrder(Cur)) :
        LET before == SweepBefore(k)
            g == CloseOrder(Cur)[k]
        IN  (~before.raised /\ SetsClosed(before.L, close_goal(before.L, g).L, g))
                => \A h \in YoungerServed(before.L, g) : ClosedEnough(before.L, h, g)

\* A close() is about to close a goal that a younger goal serves.
C33_Witness ==
    graph_enter /\ \E k \in 1..Len(CloseOrder(Cur)) :
        LET before == SweepBefore(k)
            g == CloseOrder(Cur)[k]
        IN  /\ ~before.raised
            /\ SetsClosed(before.L, close_goal(before.L, g).L, g)
            /\ YoungerServed(before.L, g) # {}

\* Every pending rule of g.gT[h] has consumed all the claims of h.
ServingRulesUpToDate(L, g) ==
    \A h \in DOMAIN L.ann[g].gT : \A j \in SeqToSet(L.ann[g].gT[h]) :
        /\ GoalNode(h) \in DOMAIN L.ann
        /\ RuleNode(j) \in DOMAIN L.ann
        /\ L.ann[RuleNode(j)].subgoalindex = Len(L.ann[GoalNode(h)].claims)

\* C34: no close_goal of a close() sets a goal g to Closed while a pending
\* rule of g.gT[h] has a subgoalindex other than the number of claims of h.
C34_ClosedOnlyWhenPropagated ==
    graph_enter => \A k \in 1..Len(CloseOrder(Cur)) :
        LET before == SweepBefore(k)
            g == CloseOrder(Cur)[k]
        IN  (~before.raised /\ SetsClosed(before.L, close_goal(before.L, g).L, g))
                => ServingRulesUpToDate(before.L, g)

\* A close() is about to close a goal whose gT holds a pending rule.
C34_Witness ==
    graph_enter /\ \E k \in 1..Len(CloseOrder(Cur)) :
        LET before == SweepBefore(k)
            g == CloseOrder(Cur)[k]
        IN  /\ ~before.raised
            /\ SetsClosed(before.L, close_goal(before.L, g).L, g)
            /\ \E h \in DOMAIN before.L.ann[g].gT :
                   /\ Len(before.L.ann[g].gT[h]) > 0
                   /\ GoalNode(h) \in DOMAIN before.L.ann
                   /\ Len(before.L.ann[GoalNode(h)].claims) > 0

\* gD[h] of the goal g, NoneInt where gD has no entry or holds None.
GDOf(L, g, h) ==
    IF h.item[1] \in DOMAIN L.ann[g].gD THEN L.ann[g].gD[h.item[1]] ELSE NoneInt

\* gD[h] as the closing rule states it, for g just set to Closed in L.
StatedGD(L, g, h) ==
    LET tau == tau_g_h(L, g, h)
        gTh == IF h.item[1] \in DOMAIN L.ann[g].gT THEN L.ann[g].gT[h.item[1]] ELSE << >>
    IN  IF /\ L.ann[g].index < L.ann[h].index
           /\ Len(gTh) > 0
           /\ ~ClosedEnough(L, h, g)
        THEN IF tau = NoneInt THEN Len(L.ann[h].claims)
             ELSE MinOf({Len(L.ann[h].claims), tau})
        ELSE IF tau # NoneInt /\ ~ClosedOrCompleted(L.ann[h])
        THEN tau
        ELSE NoneInt

\* C35: when close_goal sets g to Closed, gD[h] is, for every other goal
\* h, the value the closing rule states: min(|h.claims|, tau(g)(h)) for a
\* younger h with non-empty g.gT[h] that is not closed enough, tau(g)(h)
\* when that is defined and h is not closed, undefined otherwise.
C35_GDAsStated ==
    graph_enter => \A k \in 1..Len(CloseOrder(Cur)) :
        LET before == SweepBefore(k)
            g == CloseOrder(Cur)[k]
            closed == [before.L EXCEPT !.ann[g].status = CLOSED]
            after == close_goal(before.L, g).L
        IN  (~before.raised /\ SetsClosed(before.L, after, g))
                => \A h \in DOMAIN before.L.ann :
                       (h.kind = GOAL /\ h # g) => GDOf(after, g, h) = StatedGD(closed, g, h)

\* The goals h for which gD[h] of g is defined (0 is a defined value).
DefinedGD(L, g) ==
    {h \in DOMAIN L.ann : h.kind = GOAL /\ GDOf(L, g, h) # NoneInt}

MaxOf(S) == CHOOSE m \in S : \A x \in S : m >= x

\* C36: after close_goal has closed a goal g whose gD is defined somewhere,
\* g.gUnclosed is the greatest index of the goals h with a defined gD[h].
C36_UnclosedIsMaxIndex ==
    graph_enter => \A k \in 1..Len(CloseOrder(Cur)) :
        LET before == SweepBefore(k)
            g == CloseOrder(Cur)[k]
            result == close_goal(before.L, g)
        IN  (/\ ~before.raised /\ ~result.raised
             /\ SetsClosed(before.L, result.L, g)
             /\ DefinedGD(result.L, g) # {})
                => result.L.ann[g].gUnclosed =
                       MaxOf({result.L.ann[h].index : h \in DefinedGD(result.L, g)})

\* g is the subgoal of a pending rule of the goal G.
ImmediateSupergoal(L, G, g) ==
    \E P \in SeqToSet(get_children(L, G)) :
        P.kind = PENDING_CLAUSE /\ InSeq(g, get_children(L, P))

\* A Closed goal without stuck subgoals, one of whose immediate supergoals
\* is Completed.
ClosedUnderCompleted(L, g) ==
    /\ g.kind = GOAL
    /\ L.ann[g].status = CLOSED
    /\ no_stuck_subgoals(L, g)
    /\ \E G \in DOMAIN L.ann :
           /\ G.kind = GOAL /\ G # g
           /\ L.ann[G].status = COMPLETED
           /\ ImmediateSupergoal(L, G, g)

\* C37: complete() marks a Closed goal without stuck subgoals Completed when
\* one of its immediate supergoals is Completed, whatever its gD holds.
C37_CompletedUnderCompletedSupergoal ==
    graph_enter => \A g \in DOMAIN ann :
        ClosedUnderCompleted(Cur, g) => complete(Cur).ann[g].status = COMPLETED

\* No rule head can match the goal, no claim unifies with it, and its
\* interpreter has not answered.
Unresolvable(goal) ==
    /\ get_candidate_matchings_heads(db_heads, goal) = << >>
    /\ ClaimsUnifyingWith(goal) = {}
    /\ goal \in DOMAIN jobs /\ jobs[goal] = "run"

\* C38: check_stuck_goals leaves a stuck goal in the stuck-goal index when
\* no rule head and no claim matches it and its interpreter has not
\* answered: the resolve_goal it runs for such a goal returns without
\* unsticking it.
C38_UnresolvableStaysStuck ==
    [][(/\ Running("resolve_goal") /\ Top.flag
        /\ is_stuck_goal(Cur, Top.goal)
        /\ Unresolvable(Top.goal)
        /\ stack' = Tail(stack))
            => InSeq(Top.goal, db_stuck_goals')]_vars

\* The thread of an asynchronous handler is about to call an entry point of
\* the Engine with its output, and so to take the inference lock.
HandlerWaitsForLock(goal) ==
    /\ handler_is_async(goal)
    /\ goal \in DOMAIN jobs /\ jobs[goal] \in {"moved", "errors"}

\* The lock is held by a thread that an exception has taken out of its
\* entry point: no unlock() is left to run.
LockHeldForever == Running("raised") /\ rlock > 0

\* C39: no thread waits forever for the inference lock: a handler thread
\* that has output to hand to the Engine never faces a lock that nothing
\* will release.
C39_NoThreadWaitsForever ==
    \A goal \in DOMAIN jobs : HandlerWaitsForLock(goal) => ~LockHeldForever

\* The engine holds nothing: no node and no annotation in the graph, time
\* 0, and the three queries report nothing for any goal of the client.
NothingSurvives ==
    /\ nodes = << >>
    /\ ann = EmptyMap
    /\ global_time = 0
    /\ \A goal \in program.goals :
           /\ ~is_completed(Cur, goal)
           /\ ~is_stuck_goal(Cur, goal)
           /\ get_claims_matching_goal(Cur, goal) = << >>

\* C40: when Engine.clear() returns, no state from before the call
\* survives: the graph is empty, the global time is 0, and no goal is
\* reported completed, stuck, or with claims.
C40_ClearLeavesNothing == [][Clear => NothingSurvives']_vars

====
